---- MODULE Spec2Model ----
(***************************************************************************)
(* Model of the intent-routing and answer-composition core of              *)
(* multi-support-agent: src/agent/intent.py (classifier),                  *)
(* src/agent/tools.py (the two tools), src/agent/agent.py (invoke), the   *)
(* SQLite client's run_query, and the lazy initialisation and search of    *)
(* src/db/vector_store.py (specification VectorSpec for its threads).      *)
(*                                                                         *)
(* Text.  A user message is a sequence of word tokens; the text it stands  *)
(* for is the tokens joined by one space.  The token WS is a run of extra  *)
(* whitespace, so <<"Denise", WS, "Lee">> is "Denise \t Lee".              *)
(* Every word of Vocabulary is a whole word of letters, except T7 and      *)
(* a@b.co; the regular expressions of intent.py are translated to this     *)
(* token level (a \s+ is a token boundary, [A-Z][a-z]+ a token of          *)
(* CapWords).  Extracted values are word sequences.                        *)
(***************************************************************************)
EXTENDS Integers, Sequences, FiniteSets, TLC

\* ------------------------------------------------------------------ bounds
MaxLen == 3

MaxQueryLen == 2

\* the longest statement and result, in pieces, given to the framing
MaxParts == 2

\* the longest message, in words, made of the words around a customer name
MaxNameLen == 4

\* ------------------------------------------------------------ optional values
None == [some |-> FALSE]

Some(v) == [some |-> TRUE, val |-> v]

MinOf(S) == CHOOSE x \in S : \A y \in S : x <= y

SeqsUpTo(S, n) == UNION {[1..k -> S] : k \in 0..n}

\* ------------------------------------------------------------------ words
WS == "WS"

Vocabulary ==
  {"policy", "Policy", "customer", "profile", "Does", "Denise", "Lee",
   "open", "bought", "ticket", "T7", "a@b.co"}

\* str.lower() on one word
Lower(t) ==
  CASE t = "Policy" -> "policy"
    [] t = "Does" -> "does"
    [] t = "Denise" -> "denise"
    [] t = "Lee" -> "lee"
    [] t = "T7" -> "t7"
    [] OTHER -> t

\* words matching [A-Z][a-z]+ from their first to their last character
CapWords == {"Policy", "Does", "Denise", "Lee"}

\* words made of [A-Za-z] only
AlphaWords == Vocabulary \ {"T7", "a@b.co"}

\* words made of [A-Za-z0-9] only
AlnumWords == Vocabulary \ {"a@b.co"}

\* str.strip(): leading and trailing whitespace removed
RECURSIVE LStrip(_)
LStrip(s) == IF s # <<>> /\ Head(s) = WS THEN LStrip(Tail(s)) ELSE s

RECURSIVE RStrip(_)
RStrip(s) ==
  IF s # <<>> /\ s[Len(s)] = WS THEN RStrip(SubSeq(s, 1, Len(s) - 1)) ELSE s

Strip(s) == RStrip(LStrip(s))

\* the words of a text, whitespace runs dropped (what \s+ separates)
Words(s) == SelectSeq(s, LAMBDA t : t # WS)

\* phrase in text.lower() for a keyword of one or more words separated by
\* exactly one space
HasPhrase(s, phrase) ==
  \E i \in 1..Len(s) :
    /\ i + Len(phrase) - 1 <= Len(s)
    /\ \A j \in 1..Len(phrase) : Lower(s[i + j - 1]) = phrase[j]

\* --------------------------------------------------- intent.py: extraction
\* An operator that needs an intermediate value several times takes it as a
\* parameter of a helper, so that every expression is written once.
INTENT_POLICY == "policy"

INTENT_CUSTOMER == "customer"

INTENT_BOTH == "both"

\* r"\bcustomer\s+([A-Z][a-z]+\s+[A-Z][a-z]+)" at word i (case-sensitive)
CustomerCapCapAt(W, i) ==
  /\ i + 2 <= Len(W)
  /\ W[i] = "customer"
  /\ W[i + 1] \in CapWords
  /\ W[i + 2] \in CapWords

\* r"\b([A-Z][a-z]+\s+[A-Z][a-z]+)\s+(?:qualify|profile|details|tickets|bought|purchased)"
CapCapVerbAt(W, i) ==
  /\ i + 2 <= Len(W)
  /\ W[i] \in CapWords
  /\ W[i + 1] \in CapWords
  /\ W[i + 2] \in {"qualify", "profile", "details", "tickets", "bought", "purchased"}

\* r"(?:Does|Did|Has)\s+([A-Z][a-z]+\s+[A-Z][a-z]+)\s+" at word i: the
\* trailing \s+ needs one more word after the name (the text is stripped)
DoesCapCapAt(W, i) ==
  /\ i + 3 <= Len(W)
  /\ W[i] \in {"Does", "Did", "Has"}
  /\ W[i + 1] \in CapWords
  /\ W[i + 2] \in CapWords

HasPersonWords(W) ==
  \E i \in 1..Len(W) :
    CustomerCapCapAt(W, i) \/ CapCapVerbAt(W, i) \/ DoesCapCapAt(W, i)

_has_person_name(text) == HasPersonWords(Words(text))

\* r"\bcustomer\s+([A-Za-z][A-Za-z\s]+?)(?:\'s|\s+profile|\s+details|$)" with
\* re.I: the ends j of the group that starts after the "customer" at word i.
\* The group holds letters and whitespace only and is followed by " profile",
\* " details" or the end of the text (no word of Vocabulary carries 's).
CustomerGroupEnds(W, i) ==
  {j \in (i + 1)..Len(W) :
     /\ \A k \in (i + 1)..j : W[k] \in AlphaWords
     /\ \/ j = Len(W)
        \/ Lower(W[j + 1]) \in {"profile", "details"}}

CustomerGroupAt(W, i) ==
  /\ i + 1 <= Len(W)
  /\ Lower(W[i]) = "customer"
  /\ CustomerGroupEnds(W, i) # {}

\* r"([A-Z][a-z]+\s+[A-Z][a-z]+)(?:\s+profile|\s+details|\s+qualify|\s+buy)?"
CapCapAt(W, i) ==
  /\ i + 1 <= Len(W)
  /\ W[i] \in CapWords
  /\ W[i + 1] \in CapWords

\* the lazy group of the first pattern ends at the nearest end
GroupName(W, i) == SubSeq(W, i + 1, MinOf(CustomerGroupEnds(W, i)))

\* the four patterns in the order of the code, I1..I4 the places where each
\* matches; re.search returns the leftmost match
PickName(W, I1, I2, I3, I4) ==
  IF I1 # {} THEN Some(GroupName(W, MinOf(I1)))
  ELSE IF I2 # {} THEN Some(SubSeq(W, MinOf(I2) + 1, MinOf(I2) + 2))
  ELSE IF I3 # {} THEN Some(SubSeq(W, MinOf(I3) + 1, MinOf(I3) + 2))
  ELSE IF I4 # {} THEN Some(SubSeq(W, MinOf(I4), MinOf(I4) + 1))
  ELSE None

NameOfWords(W) ==
  PickName(W,
           {i \in 1..Len(W) : CustomerGroupAt(W, i)},
           {i \in 1..Len(W) : DoesCapCapAt(W, i)},
           {i \in 1..Len(W) : CustomerCapCapAt(W, i)},
           {i \in 1..Len(W) : CapCapAt(W, i)})

_extract_customer_name_from_text(text) == NameOfWords(Words(text))

\* the words from..to of the leftmost match, None without a match
WordAt(W, I, offset) == IF I # {} THEN Some(<<W[MinOf(I) + offset]>>) ELSE None

RestAfter(W, I) == IF I # {} THEN Some(SubSeq(W, MinOf(I) + 1, Len(W))) ELSE None

\* r"[\w.+%-]+@[\w.-]+\.\w+"
EmailOfWords(W) == WordAt(W, {i \in 1..Len(W) : W[i] = "a@b.co"}, 0)

ExtractEmail(text) == EmailOfWords(Words(text))

\* a trigger word at i followed by alphanumeric words up to the end of the text
TriggerAt(W, i, triggers) ==
  /\ i + 1 <= Len(W)
  /\ Lower(W[i]) \in triggers
  /\ \A k \in (i + 1)..Len(W) : W[k] \in AlnumWords

ProductOfWords(W, triggers) ==
  RestAfter(W, {i \in 1..Len(W) : TriggerAt(W, i, triggers)})

\* r"(?:buy|bought|purchase|product)\s+[\'\"]?([A-Za-z0-9\s]+?)[\'\"]?(?:\?|\.|,|$)"
\* with re.I: no word of Vocabulary carries ? . or , so the group runs to the
\* end of the text and every word after the trigger must be alphanumeric
ExtractProduct(text) ==
  ProductOfWords(Words(text), {"buy", "bought", "purchase", "product"})

\* r"\b(?:buy|bought)\s+([A-Za-z0-9][A-Za-z0-9\s]*?)(?:\?|\.|$)" with re.I
ExtractProductAlt(text) == ProductOfWords(Words(text), {"buy", "bought"})

\* r"ticket\s*(?:id)?\s*[#:]?\s*([A-Z]?\d+)" with re.I
TicketIdOfWords(W) ==
  WordAt(W, {i \in 1..Len(W) : i + 1 <= Len(W) /\ Lower(W[i]) = "ticket" /\ W[i + 1] = "T7"}, 1)

ExtractTicketId(text) == TicketIdOfWords(Words(text))

TicketStatuses ==
  << <<"open">>, <<"pending">>, <<"resolved">>, <<"closed">>, <<"in", "progress">> >>

FirstStatus(I) == IF I # {} THEN Some(TicketStatuses[MinOf(I)]) ELSE None

\* the first status of the vocabulary, in its order, that occurs as r"\bstatus\b"
ExtractTicketStatus(text) ==
  FirstStatus({n \in 1..Len(TicketStatuses) : HasPhrase(text, TicketStatuses[n])})

\* a or b on optional values (an extracted value is never empty)
OrElse(a, b) == IF a.some THEN a ELSE b

\* the value _extract_entities stores under a key, None when the key is absent;
\* the second product pattern overwrites the first ("product" is never a key)
EntityValue(key, text) ==
  CASE key = "customer_name" -> _extract_customer_name_from_text(text)
    [] key = "customer_email" -> ExtractEmail(text)
    [] key = "product_purchased" -> OrElse(ExtractProductAlt(text), ExtractProduct(text))
    [] key = "ticket_id" -> ExtractTicketId(text)
    [] key = "ticket_status" -> ExtractTicketStatus(text)

EntityKeys ==
  {"customer_name", "customer_email", "product_purchased", "ticket_id", "ticket_status"}

\* a dict: a function on the keys that are present
DictOf(found) == [k \in {key \in DOMAIN found : found[key].some} |-> found[k].val]

_extract_entities(text) == DictOf([key \in EntityKeys |-> EntityValue(key, text)])

\* dict.get(key): the value or None
DictGet(d, key) == IF key \in DOMAIN d THEN Some(d[key]) ELSE None

\* d or None
DictOrNone(d) == IF DOMAIN d = {} THEN None ELSE Some(d)

\* ----------------------------------------------- intent.py: classification
\* Confidences are in hundredths: 0.9 is 90, 0.95 is 95.
IntentResult(intent, confidence, customer_name, ticket_id, raw_json, entities) ==
  [intent |-> intent, confidence |-> confidence, customer_name |-> customer_name,
   ticket_id |-> ticket_id, raw_json |-> raw_json, entities |-> entities]

\* json.dumps of the dict a branch builds
Dumps(intent, customer_name, confidence) ==
  Some([kind |-> "dumps", intent |-> intent, customer_name |-> customer_name,
        confidence |-> confidence])

policy_keywords ==
  { <<"refund", "policy">>, <<"refund", "policy?">>, <<"current", "refund">>,
    <<"what", "is", "the", "refund">>, <<"policy">>, <<"terms">>,
    <<"cancellation">>, <<"qualify", "under">>, <<"qualify", "for", "refund">>,
    <<"policy", "document">>, <<"legal">>, <<"company", "policy">> }

customer_keywords ==
  { <<"customer">>, <<"profile">>, <<"support", "ticket">>, <<"ticket", "details">>,
    <<"ticket", "history">>, <<"overview", "of", "customer">>,
    <<"customer's", "profile">>, <<"past", "support">>, <<"tickets", "for">> }

has_policy(message) ==
  (\E k \in policy_keywords : HasPhrase(message, k)) \/ HasPhrase(message, <<"policy">>)

has_customer(message) ==
  (\E k \in customer_keywords : HasPhrase(message, k)) \/ HasPhrase(message, <<"customer">>)

has_person_or_entity(message) ==
  _has_person_name(message) \/ DOMAIN _extract_entities(message) # {}

\* lines 115, 128 and 137: the rule that returns, "none" when none does
RuleIntentCustomerFirst(p, c, e) ==
  IF c \/ e THEN INTENT_CUSTOMER
  ELSE IF p THEN INTENT_POLICY
  ELSE "none"

RuleIntent(p, c, e) ==
  IF p /\ (c \/ e) THEN INTENT_BOTH
  ELSE IF p /\ ~c /\ ~e THEN INTENT_POLICY
  ELSE IF c \/ e THEN INTENT_CUSTOMER
  ELSE "none"

\* the result of the both and the customer rule: name is
\* entities.get("customer_name") or _extract_customer_name_from_text(message)
RuleResultNamedNoEntities(intent, entities, name) ==
  IntentResult(intent, 90, name, DictGet(entities, "ticket_id"), Dumps(intent, name, 90), None)

RuleResultNamed(intent, entities, name) ==
  IntentResult(intent, 90, name, DictGet(entities, "ticket_id"),
               Dumps(intent, name, 90), DictOrNone(entities))

RuleResultOf(intent, entities, extracted) ==
  RuleResultNamed(intent, entities, OrElse(DictGet(entities, "customer_name"), extracted))

RuleResult(intent, message) ==
  RuleResultOf(intent, _extract_entities(message), _extract_customer_name_from_text(message))

PolicyResult ==
  IntentResult(INTENT_POLICY, 95, None, None, Dumps(INTENT_POLICY, None, 95), Some(<<>>))

RuleReturn(intent, message) ==
  IF intent = "none" THEN None
  ELSE IF intent = INTENT_POLICY THEN Some(PolicyResult)
  ELSE Some(RuleResult(intent, message))

\* the rule layer: the IntentResult a rule returns, None when no rule matches
RuleDecision(message) ==
  RuleReturn(RuleIntent(has_policy(message), has_customer(message),
                        has_person_or_entity(message)),
             message)

\* the default at the end of the function: both at 0.5
DefaultResult(message) ==
  IntentResult(INTENT_BOTH, 50, _extract_customer_name_from_text(message), None,
               Dumps(INTENT_BOTH, None, 50), DictOrNone(_extract_entities(message)))

\* IntentResult(intent=INTENT_BOTH, confidence=0.0)
EmptyResult == IntentResult(INTENT_BOTH, 0, None, None, None, None)

\* --------------------------------------------- the classifier's model reply
\* A reply is a sequence of pieces: a fence of three backticks, the word json,
\* prose (free text without a brace), whitespace, or one JSON value.  A JSON
\* object carries the four keys the prompt asks for; a field is missing, null,
\* a string or a number (in hundredths).
Fence == [t |-> "fence"]

JsonWord == [t |-> "json"]

Prose == [t |-> "prose"]

Blank == [t |-> "ws"]

JValue(v) == [t |-> "value", v |-> v]

FMissing == [t |-> "missing"]

FNull == [t |-> "null"]

FStr(x) == [t |-> "str", s |-> x, empty |-> FALSE]

FEmptyStr == [t |-> "str", s |-> "", empty |-> TRUE]

FNum(n) == [t |-> "num", n |-> n]

JObject(intent, confidence, customer_name, ticket_id) ==
  [k |-> "object", intent |-> intent, confidence |-> confidence,
   customer_name |-> customer_name, ticket_id |-> ticket_id]

JList == [k |-> "list"]

\* Python truth of obj.get(key)
Truthy(f) ==
  CASE f.t = "missing" -> FALSE
    [] f.t = "null" -> FALSE
    [] f.t = "str" -> ~f.empty
    [] f.t = "num" -> f.n # 0

\* str.lower() on an intent string
LowerIntent(x) ==
  CASE x = "Customer" -> "customer"
    [] x = "POLICY" -> "policy"
    [] OTHER -> x

\* str.strip() on a reply
RECURSIVE LStripT(_)
LStripT(c) == IF c # <<>> /\ Head(c).t = "ws" THEN LStripT(Tail(c)) ELSE c

RECURSIVE RStripT(_)
RStripT(c) ==
  IF c # <<>> /\ c[Len(c)].t = "ws" THEN RStripT(SubSeq(c, 1, Len(c) - 1)) ELSE c

StripT(c) == RStripT(LStripT(c))

\* str.split on the fence: the parts between the fences
RECURSIVE SplitFence(_)
RECURSIVE SplitFenceAt(_, _)
SplitFenceAt(c, I) ==
  IF I = {} THEN <<c>>
  ELSE <<SubSeq(c, 1, MinOf(I) - 1)>> \o SplitFence(SubSeq(c, MinOf(I) + 1, Len(c)))

SplitFence(c) == SplitFenceAt(c, {i \in 1..Len(c) : c[i].t = "fence"})

\* "{" in part
HasBrace(part) ==
  \E i \in 1..Len(part) : part[i].t = "value" /\ part[i].v.k = "object"

\* lines 168-169: a leading "json" is cut off
DropJsonWord(p) == IF p # <<>> /\ p[1].t = "json" THEN StripT(Tail(p)) ELSE p

\* lines 164-170: the first part between fences that holds a brace
UnfencePick(c, parts, I) ==
  IF (\E i \in 1..Len(c) : c[i].t = "fence") /\ I # {}
    THEN DropJsonWord(StripT(parts[MinOf(I)]))
  ELSE c

UnfenceParts(c, parts) == UnfencePick(c, parts, {i \in 1..Len(parts) : HasBrace(parts[i])})

UnfenceStripped(c) == UnfenceParts(c, SplitFence(c))

UnfenceJson(content) == UnfenceStripped(StripT(content))

\* json.loads succeeds on exactly one JSON value
JsonLoads(content) ==
  IF Len(content) = 1 /\ content[1].t = "value" THEN Some(content[1].v) ELSE None

\* line 172: (obj.get("intent") or "both").lower()
RawIntent(obj) == IF Truthy(obj.intent) THEN LowerIntent(obj.intent.s) ELSE "both"

\* lines 173-174
ValidIntent(intent) ==
  IF intent \in {INTENT_POLICY, INTENT_CUSTOMER, INTENT_BOTH} THEN intent ELSE INTENT_BOTH

\* line 178: float(obj.get("confidence", 0.8)) on a number or a missing key
FloatOf(f) == IF f.t = "missing" THEN 80 ELSE f.n

Exc == [exc |-> TRUE]

\* lines 172-183 on the parsed object: a list has no get, a number no lower,
\* float() refuses None and a non-numeric string
BranchFields(message, content, obj) ==
  IF obj.k # "object" THEN Exc
  ELSE IF Truthy(obj.intent) /\ obj.intent.t # "str" THEN Exc
  ELSE IF obj.confidence.t \in {"null", "str"} THEN Exc
  ELSE [exc |-> FALSE,
        result |->
          IntentResult(
            ValidIntent(RawIntent(obj)),
            FloatOf(obj.confidence),
            IF Truthy(obj.customer_name) THEN Some(obj.customer_name.s)
            ELSE _extract_customer_name_from_text(message),
            IF obj.ticket_id.t = "str" THEN Some(obj.ticket_id.s) ELSE None,
            Some([kind |-> "content", content |-> content]),
            DictOrNone(_extract_entities(message)))]

BranchLoaded(message, content, loaded) ==
  IF ~loaded.some THEN Exc ELSE BranchFields(message, content, loaded.val)

BranchContent(message, content) == BranchLoaded(message, content, JsonLoads(content))

\* lines 161-183 inside the try: Exc when a statement raises, else the
\* IntentResult returned
LLMBranch(message, reply) ==
  IF reply.raises THEN Exc ELSE BranchContent(message, UnfenceJson(reply.content))

Returned(result, llm_calls) == [raised |-> FALSE, result |-> result, llm_calls |-> llm_calls]

\* lines 150-195: the model branch inside its try, then the default
AfterBranchNoTry(message, branch) ==
  IF branch.exc THEN [raised |-> TRUE, result |-> DefaultResult(message), llm_calls |-> 1]
  ELSE Returned(branch.result, 1)

AfterBranch(message, branch) ==
  IF branch.exc THEN Returned(DefaultResult(message), 1) ELSE Returned(branch.result, 1)

\* the rule layer first; lines 149-195 are reached only when no rule returned
AfterRulesModelFirst(message, rule, llm, reply) ==
  IF llm THEN AfterBranch(message, LLMBranch(message, reply))
  ELSE IF rule.some THEN Returned(rule.val, 0)
  ELSE Returned(DefaultResult(message), 0)

AfterRules(message, rule, llm, reply) ==
  IF rule.some THEN Returned(rule.val, 0)
  ELSE IF llm THEN AfterBranch(message, LLMBranch(message, reply))
  ELSE Returned(DefaultResult(message), 0)

ClassifyStrippedNoEmptyCheck(message, llm, reply) ==
  AfterRules(message, RuleDecision(message), llm, reply)

ClassifyStripped(message, llm, reply) ==
  IF message = <<>> THEN Returned(EmptyResult, 0)
  ELSE AfterRules(message, RuleDecision(message), llm, reply)

\* classify_intent_and_entities(user_message, llm): the IntentResult returned,
\* whether an exception left the function, and the model calls issued.
\* llm is FALSE for llm=None; reply is what the model answers if called.
classify_intent_and_entities(user_message, llm, reply) ==
  ClassifyStripped(Strip(IF user_message.some THEN user_message.val ELSE <<>>), llm, reply)

\* ------------------------------------------------- text with lengths
\* The strings the tools and invoke build are sequences of pieces; a piece
\* has a name w and a length n in characters.  A literal piece stands for
\* that literal of the source; Fill(n) is n characters of other text, free
\* of whitespace at its ends and of every literal below.
CharLen(w) ==
  CASE w = "SQL:" -> 4
    [] w = "Result:" -> 7
    [] w = " " -> 1
    [] w = "NL" -> 1
    [] w = "SELECT" -> 6
    [] w = "select" -> 6
    [] w = "DROP" -> 4
    [] w = "FENCE" -> 3
    [] w = "sql" -> 3
    [] w = "Query error: " -> 13
    [] w = "No matching data found." -> 23
    [] w = "Error: " -> 7
    [] w = "Generated query was not a SELECT. Please ask about customer or ticket data." -> 75
    [] w = "Please provide a question about customers or support tickets." -> 61
    [] w = "Please provide a question about policy or documents." -> 52
    [] w = "No relevant policy documents found." -> 35
    [] w = "Only SELECT queries are allowed." -> 32
    [] w = "I couldn't complete the request: " -> 33
    [] w = "I couldn't generate a response." -> 31
    [] w = "Please provide a question about a customer, support tickets, or company policy." -> 79
    [] w = "SQL tool: " -> 10
    [] w = "SQL tool error: " -> 16
    [] w = "Retriever: " -> 11
    [] w = "Retriever error: " -> 17
    [] w = "No results" -> 10
    [] w = "Table support_tickets not found." -> 32
    [] w = "Table: support_tickets" -> 22

Lit(w) == [w |-> w, n |-> CharLen(w)]

Fill(n) == [w |-> "text", n |-> n]

IsSpace(p) == p.w \in {" ", "NL"}

RECURSIVE TextLen(_)
TextLen(t) == IF t = <<>> THEN 0 ELSE Head(t).n + TextLen(Tail(t))

\* t[:limit]; a piece cut in two leaves limit characters of plain text
RECURSIVE Truncate(_, _)
Truncate(t, limit) ==
  IF t = <<>> \/ limit <= 0 THEN <<>>
  ELSE IF Head(t).n <= limit THEN <<Head(t)>> \o Truncate(Tail(t), limit - Head(t).n)
  ELSE <<Fill(limit)>>

\* str.strip()
RECURSIVE LStripP(_)
LStripP(t) == IF t # <<>> /\ IsSpace(Head(t)) THEN LStripP(Tail(t)) ELSE t

RECURSIVE RStripP(_)
RStripP(t) ==
  IF t # <<>> /\ IsSpace(t[Len(t)]) THEN RStripP(SubSeq(t, 1, Len(t) - 1)) ELSE t

StripP(t) == RStripP(LStripP(t))

\* w in t for a literal w
HasLit(t, w) == \E i \in 1..Len(t) : t[i].w = w

\* "select" in t.lower()
HasSelect(t) == \E i \in 1..Len(t) : t[i].w \in {"SELECT", "select"}

\* t.upper().startswith("SELECT")
StartsWithSelect(t) == t # <<>> /\ t[1].w \in {"SELECT", "select"}

\* t.split("FENCE")
RECURSIVE SplitTicks(_)
RECURSIVE SplitTicksAt(_, _)
SplitTicksAt(t, I) ==
  IF I = {} THEN <<t>>
  ELSE <<SubSeq(t, 1, MinOf(I) - 1)>> \o SplitTicks(SubSeq(t, MinOf(I) + 1, Len(t)))

SplitTicks(t) == SplitTicksAt(t, {i \in 1..Len(t) : t[i].w = "FENCE"})

\* --------------------------------------------- sqlite_client.py: run_query
\* What the database does with a statement it is given: rows, an
\* sqlite3.Error while executing, or get_connection raising.
\* Rows are a count n, the length of their json.dumps, and the value of the
\* first row's "error" column when it has one.
Rows(n, dump, error) == [n |-> n, dump |-> dump, error |-> error]

ErrorRows(msg) == Rows(1, TextLen(msg) + 13, Some(msg))

\* what a call did with connections: whether get_connection was called,
\* whether it returned one, whether conn.close() ran
Conn(connect, opened, closed) == [connect |-> connect, opened |-> opened, closed |-> closed]

\* the connections a call opened and left open
Leaked(conn) == (IF conn.opened THEN 1 ELSE 0) - (IF conn.closed THEN 1 ELSE 0)

\* run_query without the finally of lines 66-67: the connection is closed
\* only when the rows were returned
run_queryNoFinally(sql, db) ==
  IF ~StartsWithSelect(StripP(sql))
    THEN [raised |-> FALSE,
          rows |-> ErrorRows(<<Lit("Only SELECT queries are allowed.")>>),
          connect |-> FALSE, executed |-> FALSE, conn |-> Conn(FALSE, FALSE, FALSE)]
  ELSE CASE db.k = "rows" ->
              [raised |-> FALSE, rows |-> db.rows, connect |-> TRUE, executed |-> TRUE,
               conn |-> Conn(TRUE, TRUE, TRUE)]
         [] db.k = "sqlite_error" ->
              [raised |-> FALSE, rows |-> ErrorRows(db.error), connect |-> TRUE,
               executed |-> TRUE, conn |-> Conn(TRUE, TRUE, FALSE)]
         [] db.k = "raises" ->
              [raised |-> TRUE, error |-> db.error, connect |-> TRUE, executed |-> FALSE,
               conn |-> Conn(TRUE, FALSE, FALSE)]

\* run_query(sql): [raised, error] or [raised, rows], whether
\* get_connection was called (line 57), whether the statement was handed
\* to the database (line 60), and what became of the connection: none is
\* opened when the statement is rejected (line 56) or get_connection raises
\* (line 57, before the try), and the finally of lines 66-67 closes the one
\* that was opened
run_query(sql, db) ==
  IF ~StartsWithSelect(StripP(sql))
    THEN [raised |-> FALSE,
          rows |-> ErrorRows(<<Lit("Only SELECT queries are allowed.")>>),
          connect |-> FALSE, executed |-> FALSE, conn |-> Conn(FALSE, FALSE, FALSE)]
  ELSE CASE db.k = "rows" ->
              [raised |-> FALSE, rows |-> db.rows, connect |-> TRUE, executed |-> TRUE,
               conn |-> Conn(TRUE, TRUE, TRUE)]
         [] db.k = "sqlite_error" ->
              [raised |-> FALSE, rows |-> ErrorRows(db.error), connect |-> TRUE,
               executed |-> TRUE, conn |-> Conn(TRUE, TRUE, TRUE)]
         [] db.k = "raises" ->
              [raised |-> TRUE, error |-> db.error, connect |-> TRUE, executed |-> FALSE,
               conn |-> Conn(TRUE, FALSE, FALSE)]

\* ------------------------------------------- sqlite_client.py: get_schema
\* what the database file holds when get_schema reads it: the table, no
\* such table, a file the first statement fails on, or no connection at all
SchemaOutcomes == {"table", "no_table", "execute_raises", "connect_raises"}

\* get_schema(): the text returned or the exception raised, and what became
\* of the connection of line 22 (the finally of lines 47-48)
get_schema(db) ==
  CASE db = "table" ->
         [raised |-> FALSE, text |-> <<Lit("Table: support_tickets"), Fill(600)>>,
          conn |-> Conn(TRUE, TRUE, TRUE)]
    [] db = "no_table" ->
         [raised |-> FALSE, text |-> <<Lit("Table support_tickets not found.")>>,
          conn |-> Conn(TRUE, TRUE, TRUE)]
    [] db = "execute_raises" ->
         [raised |-> TRUE, text |-> <<Fill(40)>>, conn |-> Conn(TRUE, TRUE, TRUE)]
    [] db = "connect_raises" ->
         [raised |-> TRUE, text |-> <<Fill(40)>>, conn |-> Conn(TRUE, FALSE, FALSE)]

\* ------------------------------------------------------------- tools.py
SqlResultLimit == 8000

\* a call of a collaborator: its name, the text passed or received, and
\* whether it raised
Call(to, arg, failed) == [to |-> to, arg |-> arg, failed |-> failed]

\* lines 52-58: the first part between fences that holds "select"
UnfenceSqlPick(sql, parts, I) ==
  IF HasLit(sql, "FENCE") /\ I # {} THEN StripP(parts[MinOf(I)]) ELSE sql

UnfenceSqlParts(sql, parts) ==
  UnfenceSqlPick(sql, parts, {i \in 1..Len(parts) : HasSelect(parts[i])})

UnfenceSqlStripped(sql) == UnfenceSqlParts(sql, SplitTicks(sql))

\* lines 51-58: the statement taken from the model's reply
UnfenceSql(content) == UnfenceSqlStripped(StripP(content))

\* the framing "SQL: " + sql + "\nResult: " + result
SqlFrame(sql, result) ==
  <<Lit("SQL:"), Lit(" ")>> \o sql \o <<Lit("NL"), Lit("Result:"), Lit(" ")>> \o result

ToolReturn(out, made) == [out |-> out, calls |-> made]

\* lines 62-68 on the rows run_query returned
FormatRows(sql, rows) ==
  IF rows.n = 1 /\ rows.error.some
    THEN SqlFrame(sql, <<Lit("Query error: ")>> \o rows.error.val)
  ELSE IF rows.n = 0 THEN SqlFrame(sql, <<Lit("No matching data found.")>>)
  ELSE SqlFrame(sql, Truncate(<<Fill(rows.dump)>>, SqlResultLimit))

\* the calls made from line 61 on
QueryCallsRetried(sql, q) ==
  <<Call("run_query", sql, q.raised)>>
    \o (IF q.raised THEN <<Call("run_query", sql, q.raised)>> ELSE <<>>)
    \o (IF q.executed THEN <<Call("execute", sql, FALSE)>> ELSE <<>>)

QueryCalls(sql, q) ==
  <<Call("run_query", sql, q.raised)>>
    \o (IF q.conn.connect THEN <<Call("get_connection", <<>>, ~q.conn.opened)>> ELSE <<>>)
    \o (IF q.executed THEN <<Call("execute", sql, FALSE)>> ELSE <<>>)
    \o (IF q.conn.closed THEN <<Call("conn.close", <<>>, FALSE)>> ELSE <<>>)

\* the connections the calls of a log opened and left open
LeftOpen(made) ==
  Cardinality({i \in 1..Len(made) : made[i].to = "get_connection" /\ ~made[i].failed})
    - Cardinality({i \in 1..Len(made) : made[i].to = "conn.close"})

\* lines 61-71 with the result of run_query
ToolWithRows(sql, q, made) ==
  IF q.raised THEN ToolReturn(<<Lit("Error: ")>> \o q.error, made \o QueryCalls(sql, q))
  ELSE ToolReturn(FormatRows(sql, q.rows), made \o QueryCalls(sql, q))

\* lines 59-71 with the statement taken from the reply
ToolWithSqlNoGuard(sql, db, made) == ToolWithRows(sql, run_query(sql, db), made)

ToolWithSql(sql, db, made) ==
  IF ~StartsWithSelect(sql)
    THEN ToolReturn(
           <<Lit("Generated query was not a SELECT. Please ask about customer or ticket data.")>>,
           made)
  ELSE ToolWithRows(sql, run_query(sql, db), made)

\* query_customer_tickets(question): the string returned and the calls made.
\* reply is the model's answer to the generation prompt, db what the
\* database does with the statement.
query_customer_tickets(question, reply, db) ==
  IF Strip(question) = <<>>
    THEN ToolReturn(<<Lit("Please provide a question about customers or support tickets.")>>,
                    <<>>)
  ELSE IF reply.raises
    THEN ToolReturn(<<Lit("Error: ")>> \o reply.error, <<Call("llm_sql", reply.error, TRUE)>>)
  ELSE ToolWithSql(UnfenceSql(reply.content), db, <<Call("llm_sql", reply.content, FALSE)>>)

\* vector_store.search(query) on an index that raises (line 98 or later),
\* has no collection policy_docs, or answers the query with chunks, docs
\* being their text joined (<<>> when none matched): what it returns or
\* raises, and the calls it made
searchNoTry(index) ==
  CASE index.k = "raises" -> [raises |-> TRUE, error |-> index.error, calls |-> <<>>]
    [] index.k = "missing" ->
         [raises |-> TRUE, error |-> <<Fill(40)>>,
          calls |-> <<Call("get_collection", <<>>, TRUE)>>]
    [] index.k = "chunks" ->
         [raises |-> FALSE, text |-> index.docs,
          calls |-> <<Call("get_collection", <<>>, FALSE),
                      Call("collection.query", index.docs, FALSE)>>]

search(index) ==
  CASE index.k = "raises" -> [raises |-> TRUE, error |-> index.error, calls |-> <<>>]
    [] index.k = "missing" ->
         [raises |-> FALSE, text |-> <<>>, calls |-> <<Call("get_collection", <<>>, TRUE)>>]
    [] index.k = "chunks" ->
         [raises |-> FALSE, text |-> index.docs,
          calls |-> <<Call("get_collection", <<>>, FALSE),
                      Call("collection.query", index.docs, FALSE)>>]

\* search_policy_documents(query): found is what vector_store.search did: it
\* raised, or returned the concatenated chunks ("" when the collection is
\* missing or nothing matched)
search_policy_documents(query, found) ==
  IF Strip(query) = <<>>
    THEN ToolReturn(<<Lit("Please provide a question about policy or documents.")>>, <<>>)
  ELSE IF found.raises
    THEN ToolReturn(<<Lit("Error: ")>> \o found.error,
                    <<Call("search", found.error, TRUE)>> \o found.calls)
  ELSE IF found.text # <<>>
    THEN ToolReturn(found.text, <<Call("search", found.text, FALSE)>> \o found.calls)
  ELSE ToolReturn(<<Lit("No relevant policy documents found.")>>,
                  <<Call("search", found.text, FALSE)>> \o found.calls)

\* ------------------------------------------------------------- agent.py
SnippetLimit == 2000

ToolOutputLimit == 500

AgentResponse(answer, sql_q, sql_r, used, snippet, internal_query, nlp, selection, raw) ==
  [answer |-> answer, sql_query |-> sql_q, sql_result |-> sql_r,
   retrieval_used |-> used, retrieval_snippet |-> snippet,
   internal_query |-> internal_query, nlp_details |-> nlp,
   agent_selection |-> selection, raw_tool_output |-> raw]

\* s.replace("SQL:", "")
DropSqlMark(t) == SelectSeq(t, LAMBDA p : p.w # "SQL:")

\* output.split("\nResult:", 1) at the first newline followed by the marker;
\* without one the whole output is the only part
SplitResult(output, I) ==
  IF I = {} THEN [sql_query |-> Some(StripP(DropSqlMark(output))), sql_result |-> None]
  ELSE [sql_query |-> Some(StripP(DropSqlMark(SubSeq(output, 1, MinOf(I) - 1)))),
        sql_result |-> Some(StripP(SubSeq(output, MinOf(I) + 2, Len(output))))]

_parse_sql_tool_output(output) ==
  IF HasLit(output, "SQL:") /\ HasLit(output, "Result:")
    THEN SplitResult(output,
                     {i \in 1..(Len(output) - 1) :
                        output[i].w = "NL" /\ output[i + 1].w = "Result:"})
  ELSE [sql_query |-> None, sql_result |-> None]

\* lines 118-122: the entities shown in nlp_details
EntitiesWith(base, r) ==
  [k \in DOMAIN base
          \cup (IF r.customer_name.some THEN {"customer_name"} ELSE {})
          \cup (IF r.ticket_id.some THEN {"ticket_id"} ELSE {}) |->
     IF k \in DOMAIN base THEN base[k]
     ELSE IF k = "customer_name" THEN r.customer_name.val
     ELSE r.ticket_id.val]

MergedEntities(r) == EntitiesWith(IF r.entities.some THEN r.entities.val ELSE <<>>, r)

\* lines 126-130
SelectedTools(intent) ==
  IF intent = INTENT_BOTH THEN <<"query_customer_tickets", "search_policy_documents">>
  ELSE IF intent = INTENT_CUSTOMER THEN <<"query_customer_tickets">>
  ELSE <<"search_policy_documents">>

SqlPart(sqlr) == <<[label |-> "Customer/ticket data", payload |-> sqlr.val]>>

SnippetPart(snippet) == <<[label |-> "Policy/relevant documents", payload |-> snippet.val]>>

NoDataPart == <<[label |-> "No data was retrieved", payload |-> <<>>]>>

\* lines 174-175
OrNoDataForgotten(parts) == parts

OrNoData(parts) == IF parts = <<>> THEN NoDataPart ELSE parts

\* lines 168-175: the blocks of the context
ContextPartsElif(sqlr, snippet) ==
  IF sqlr.some THEN SqlPart(sqlr)
  ELSE IF snippet.some /\ snippet.val # <<>> THEN SnippetPart(snippet)
  ELSE NoDataPart

ContextParts(sqlr, snippet) ==
  OrNoData((IF sqlr.some THEN SqlPart(sqlr) ELSE <<>>)
             \o (IF snippet.some /\ snippet.val # <<>> THEN SnippetPart(snippet) ELSE <<>>))

\* lines 182-189: raw_answer from the composition call
FinalAnswerSwallowed(reply) ==
  IF reply.raises THEN <<>>
  ELSE IF reply.has_content THEN reply.content
  ELSE reply.str

FinalAnswer(reply) ==
  IF reply.raises THEN <<Lit("I couldn't complete the request: ")>> \o reply.error
  ELSE IF reply.has_content THEN reply.content
  ELSE reply.str

\* " | ".join(outputs)
RECURSIVE JoinBar(_)
JoinBar(outputs) ==
  IF Len(outputs) = 1 THEN outputs[1]
  ELSE outputs[1] \o <<[w |-> " | ", n |-> 3]>> \o JoinBar(Tail(outputs))

\* ----------------------------------------------------------------- inputs
Messages(n) == SeqsUpTo(Vocabulary \cup {WS}, n)

\* the message argument: a text, or None
MessageInputs(n) == {Some(m) : m \in Messages(n)} \cup {None}

\* the words of the phrasings a customer name is taken from
NameVocabulary == {"customer", "Does", "Denise", "Lee", "bought"}

\* the messages a direct call of the classifier is given: all short ones, and
\* longer ones about a customer name
ClassifyInputs ==
  MessageInputs(MaxLen) \cup {Some(m) : m \in SeqsUpTo(NameVocabulary, MaxNameLen)}

Reply(content) == [raises |-> FALSE, content |-> content]

ReplyRaises == [raises |-> TRUE]

ClassifyObjects ==
  { JObject(FStr("policy"), FNum(70), FNull, FNull),
    JObject(FStr("Customer"), FMissing, FStr(<<"Denise", "Lee">>), FStr(<<"T7">>)),
    JObject(FStr("both"), FNum(150), FNull, FNull),
    JObject(FStr("customer"), FNum(-20), FNull, FNull),
    JObject(FStr("unknown"), FNum(70), FNull, FNull),
    JObject(FStr("refund"), FMissing, FNull, FNull),
    JObject(FNull, FNum(100), FMissing, FMissing),
    JObject(FEmptyStr, FNum(0), FMissing, FMissing),
    JObject(FNum(5), FNum(70), FNull, FNull),
    JObject(FStr("policy"), FStr("high"), FNull, FNull),
    JObject(FStr("policy"), FNull, FNull, FNull) }

\* what the model may answer to the classification prompt
ClassifyReplies ==
  {ReplyRaises}
    \cup {Reply(<<JValue(o)>>) : o \in ClassifyObjects}
    \cup {Reply(<<Fence, JsonWord, Blank, JValue(o), Blank, Fence>>) :
            o \in {JObject(FStr("policy"), FNum(70), FNull, FNull),
                   JObject(FStr("unknown"), FNum(70), FNull, FNull)}}
    \cup {Reply(<<Prose, Fence, JValue(JObject(FStr("POLICY"), FNum(70), FNull, FNull)), Fence, Prose>>),
          Reply(<<Blank, JValue(JObject(FStr("customer"), FNum(100), FNull, FNull)), Blank>>),
          Reply(<<Prose, JValue(JObject(FStr("policy"), FNum(70), FNull, FNull))>>),
          Reply(<<Fence, Prose, Fence>>),
          Reply(<<Prose>>),
          Reply(<<>>),
          Reply(<<JValue(JList)>>)}

\* the words an end-to-end request is made of
QueryVocabulary == {"policy", "customer", "Denise", "Lee"}

InvokeInputs ==
  {Some(m) : m \in SeqsUpTo(QueryVocabulary \cup {WS}, MaxQueryLen)} \cup {None}

\* str(e) of the exceptions a collaborator raises: a short and a long one
ErrorTexts == {<<Fill(40)>>, <<Fill(2500)>>}

Raises(e) == [raises |-> TRUE, error |-> e]

\* what the model may answer to the query-generation prompt
SqlReplies ==
  {Raises(e) : e \in ErrorTexts}
    \cup {Reply(c) : c \in
            { <<Lit("SELECT"), Lit(" "), Fill(30)>>,
              <<Lit("select"), Lit(" "), Fill(30)>>,
              <<Lit("DROP"), Lit(" "), Fill(10)>>,
              <<Lit("FENCE"), Lit("SELECT"), Lit(" "), Fill(30), Lit("FENCE")>>,
              <<Lit("FENCE"), Lit("sql"), Lit("NL"), Lit("SELECT"), Lit(" "), Fill(30),
                Lit("NL"), Lit("FENCE")>>,
              <<Fill(20), Lit(" "), Lit("FENCE"), Lit("DROP"), Lit(" "), Fill(10), Lit("FENCE")>>,
              <<Lit(" "), Lit("SELECT"), Lit(" "), Fill(30), Lit("NL")>>,
              <<Fill(25)>>,
              <<>> }}

\* what the database may do with a statement
DbOutcomes ==
  { [k |-> "rows", rows |-> Rows(2, 150, None)],
    [k |-> "rows", rows |-> Rows(40, 9000, None)],
    [k |-> "rows", rows |-> Rows(0, 2, None)],
    [k |-> "rows", rows |-> Rows(1, 30, Some(<<Fill(5)>>))],
    [k |-> "raises", error |-> <<Fill(40)>>] }
    \cup {[k |-> "sqlite_error", error |-> e] : e \in ErrorTexts}

\* the states of the document index a search may meet
IndexOutcomes ==
  {[k |-> "raises", error |-> e] : e \in ErrorTexts}
    \cup {[k |-> "missing"]}
    \cup {[k |-> "chunks", docs |-> d] : d \in {<<>>, <<Fill(600)>>, <<Fill(2600)>>}}

\* what vector_store.search may do
SearchOutcomes == {search(index) : index \in IndexOutcomes}

\* what the model may answer to the composition prompt
FinalReplies ==
  { Raises(<<Fill(40)>>),
    [raises |-> FALSE, has_content |-> TRUE, content |-> <<Fill(200)>>, str |-> <<Fill(260)>>],
    [raises |-> FALSE, has_content |-> TRUE, content |-> <<>>, str |-> <<Fill(60)>>],
    [raises |-> FALSE, has_content |-> FALSE, content |-> <<>>, str |-> <<Fill(60)>>],
    [raises |-> FALSE, has_content |-> TRUE,
     content |-> <<Fill(20), Lit(" "), Lit("No matching data found.")>>, str |-> <<Fill(60)>>] }

\* the pieces a tool output is made of, markers included
PieceVocabulary == {Lit("SQL:"), Lit("Result:"), Lit("NL"), Lit(" "), Fill(5)}

Texts(n) == SeqsUpTo(PieceVocabulary, n)

\* ------------------------------------------------------ vector_store.py
\* the threads of one process that call into vector_store: the script run
\* that warms up, and two requests that search
Callers == {"warmup", "request1", "request2"}

\* the calls a thread makes, in order.  warmup (lines 115-116) loads the
\* embedding model, then the client; search takes the client (line 98) and
\* embeds the query (line 104) unless the collection is missing (line 102);
\* ingest_pdfs makes the same two calls (lines 49 and 81), or the first alone
\* when there is nothing to add (line 79)
Programs(t) ==
  IF t = "warmup" THEN {<<"_get_embedding_fn", "get_client">>}
  ELSE {<<"get_client", "_get_embedding_fn">>, <<"get_client">>}

\* the global a function initialises lazily
GlobalOf(fn) == IF fn = "get_client" THEN "_client" ELSE "_embedding_fn"

\* a thread: the calls left to make, the line it is at in the current one,
\* the object it has constructed and the handle each call returned
Thread(todo, at, made, got, chroma_path) == [todo |-> todo, at |-> at, made |-> made, got |-> got, chroma_path |-> chroma_path]

NotStarted == Thread(<<>>, "idle", None, [fn \in {"get_client", "_get_embedding_fn"} |-> None], "CHROMA_PATH")

\* the chroma_path a caller passes: warmup() of app.py passes none, which is
\* CHROMA_PATH of the configuration (line 32); search and ingest_pdfs pass
\* theirs on
ChromaPaths(t) == IF t = "warmup" THEN {"CHROMA_PATH"} ELSE {"CHROMA_PATH", "other_path"}

\* what an object is constructed from: the path of the client (line 34), the
\* name of the embedding model (line 17)
ArgOf(fn, chroma_path) == IF fn = "get_client" THEN chroma_path ELSE "all-MiniLM-L6-v2"

\* the n-th object constructed
Handle(n, arg) == [id |-> n, arg |-> arg]

\* ------------------------------------------------------------------ state
VARIABLES
  cl_in,      \* a direct call of classify_intent_and_entities: its arguments
  cl_reply,   \* the reply the model gave to that call, None if it was not called
  cl_out,     \* what the call returned, None before it returns
  pc,         \* idle, build, classify, sql, retrieve, compose, done (invoke has
              \* returned or raised), returned (a direct classifier call has)
              \* parsed (a direct call of the parser has) or queried (one
              \* of run_query has) or described (one of get_schema has)
  message,    \* invoke's argument
  raw_query,
  intent_result,   \* the fields of the IntentResult invoke reads
  sql_query,
  sql_result,
  retrieval_used,
  retrieval_snippet,
  tool_outputs,
  context_parts,
  raw_answer,
  response,   \* the AgentResponse returned, None before the return
  raised,     \* the exception that left invoke, None when none did
  calls,      \* the collaborator calls of this request, in order
  ps_in,      \* a direct call of _parse_sql_tool_output: the payload, and the
              \* q and r it was framed from when it was
  ps_out,     \* what that call returned, None before it returns
  rq_in,      \* a direct call of run_query: the statement and the database
  rq_out,     \* what that call returned or raised, None before it ends
  gs_in,      \* a direct call of get_schema: what the database file holds
  gs_out,     \* what that call returned or raised, None before it ends
  open_connections,   \* sqlite connections of the process opened and not closed
  vs_globals, \* vector_store's module globals _client and _embedding_fn
  vs_built,   \* how many clients and embedding models were constructed
  vs_threads  \* the threads calling into vector_store: where each one is

cl_vars == <<cl_in, cl_reply, cl_out>>

ps_vars == <<ps_in, ps_out>>

rq_vars == <<rq_in, rq_out>>

gs_vars == <<gs_in, gs_out>>

vs_vars == <<vs_globals, vs_built, vs_threads>>

\* the variables of the calls made outside invoke
outside == <<cl_vars, ps_vars, rq_vars, gs_vars, vs_vars>>

locals ==
  <<intent_result, sql_query, sql_result, retrieval_used, retrieval_snippet,
    tool_outputs, context_parts, raw_answer>>

vars == <<outside, pc, message, raw_query, locals, response, raised, calls, open_connections>>

NoCall == [user_message |-> None, llm |-> FALSE]

Init ==
  /\ cl_in = NoCall
  /\ cl_reply = None
  /\ cl_out = None
  /\ pc = "idle"
  /\ message = None
  /\ raw_query = <<>>
  /\ intent_result = None
  /\ sql_query = None
  /\ sql_result = None
  /\ retrieval_used = FALSE
  /\ retrieval_snippet = None
  /\ tool_outputs = <<>>
  /\ context_parts = <<>>
  /\ raw_answer = None
  /\ response = None
  /\ raised = None
  /\ calls = <<>>
  /\ ps_in = None
  /\ ps_out = None
  /\ rq_in = None
  /\ rq_out = None
  /\ gs_in = None
  /\ gs_out = None
  /\ open_connections = 0
  /\ vs_globals = [g \in {"_client", "_embedding_fn"} |-> None]
  /\ vs_built = [g \in {"_client", "_embedding_fn"} |-> 0]
  /\ vs_threads = [t \in Callers |-> NotStarted]

\* ------------------------------------- direct calls of the classifier
\* (user_message or "").strip()
Stripped(user_message) == Strip(IF user_message.some THEN user_message.val ELSE <<>>)

\* the replies to enumerate: all of them when the call reaches the model, one
\* (never read) when it does not
RepliesFor(text, llm) ==
  IF llm /\ text # <<>> /\ ~RuleDecision(text).some THEN ClassifyReplies ELSE {ReplyRaises}

ClassifyReturns(reply, out) ==
  /\ cl_out' = Some(out)
  /\ cl_reply' = IF out.llm_calls > 0 THEN Some(reply) ELSE None

\* classify_intent_and_entities called by itself, as the tests call it
ClassifyCall ==
  /\ pc = "idle"
  /\ pc' = "returned"
  /\ \E user_message \in ClassifyInputs, llm \in BOOLEAN :
       /\ cl_in' = [user_message |-> user_message, llm |-> llm]
       /\ \E reply \in RepliesFor(Stripped(user_message), llm) :
            ClassifyReturns(reply, classify_intent_and_entities(user_message, llm, reply))
  /\ UNCHANGED <<ps_vars, rq_vars, gs_vars, vs_vars, message, raw_query, locals, response,
                 raised, calls, open_connections>>

\* ------------------------------- direct calls of _parse_sql_tool_output
ParseReturns(payload, q, r) ==
  /\ ps_in' = Some([output |-> payload, q |-> q, r |-> r])
  /\ ps_out' = Some(_parse_sql_tool_output(payload))

\* _parse_sql_tool_output called by itself, as the tests call it: on what the
\* tool frames from a statement q and a result r, or on any other payload
ParseCall ==
  /\ pc = "idle"
  /\ pc' = "parsed"
  /\ \/ \E q \in Texts(MaxParts), r \in Texts(MaxParts) :
          ParseReturns(SqlFrame(q, r), Some(q), Some(r))
     \/ \E payload \in Texts(MaxParts + 1) : ParseReturns(payload, None, None)
  /\ UNCHANGED <<cl_vars, rq_vars, gs_vars, vs_vars, message, raw_query, locals, response,
                 raised, calls, open_connections>>

\* ------------------------------------------------ direct calls of run_query
\* the statements handed to run_query: what the model's replies hold
Statements == {reply.content : reply \in {r \in SqlReplies : ~r.raises}}

\* run_query called by itself, as the tests call it
RunQueryCall ==
  /\ pc = "idle"
  /\ pc' = "queried"
  /\ \E sql \in Statements, db \in DbOutcomes :
       /\ rq_in' = Some([sql |-> sql, db |-> db])
       /\ rq_out' = Some(run_query(sql, db))
       /\ open_connections' = open_connections + Leaked(run_query(sql, db).conn)
  /\ UNCHANGED <<cl_vars, ps_vars, gs_vars, vs_vars, message, raw_query, locals, response,
                 raised, calls>>

\* a direct call of get_schema, as the tests of sqlite_client make
GetSchemaCall ==
  /\ pc = "idle"
  /\ pc' = "described"
  /\ \E db \in SchemaOutcomes :
       /\ gs_in' = Some(db)
       /\ gs_out' = Some(get_schema(db))
       /\ open_connections' = open_connections + Leaked(get_schema(db).conn)
  /\ UNCHANGED <<cl_vars, ps_vars, rq_vars, vs_vars, message, raw_query, locals, response,
                 raised, calls>>

\* --------------------------------------------------------- agent.py: invoke
Clarification(q) ==
  AgentResponse(
    <<Lit("Please provide a question about a customer, support tickets, or company policy.")>>,
    None, None, FALSE, None, q,
    [intent |-> "none", confidence |-> 0, entities |-> <<>>],
    <<"none">>, None)

ReceiveStripped(q) ==
  /\ raw_query' = q
  /\ response' = IF q = <<>> THEN Some(Clarification(q)) ELSE None
  /\ pc' = IF q = <<>> THEN "done" ELSE "build"

\* lines 98-108: strip the message; an empty one is answered at once
Receive ==
  /\ pc = "idle"
  /\ \E m \in InvokeInputs :
       /\ message' = m
       /\ ReceiveStripped(Stripped(m))
  /\ UNCHANGED <<outside, locals, raised, calls, open_connections>>

\* line 110 and build_agent: the model object, then create_sql_tool reading
\* the schema from the database; neither is inside a try
\* lines 86-87: create_sql_tool reads the schema (tools.py line 31)
SchemaRead(s) ==
  /\ calls' = calls \o <<Call("ChatOllama", <<>>, FALSE), Call("get_schema", <<>>, s.raised)>>
  /\ open_connections' = open_connections + Leaked(s.conn)
  /\ IF s.raised
       THEN /\ raised' = Some(s.text)
            /\ pc' = "done"
       ELSE /\ pc' = "classify"
            /\ UNCHANGED raised

BuildAgent ==
  /\ pc = "build"
  /\ \/ /\ calls' = calls \o <<Call("ChatOllama", <<>>, TRUE)>>
        /\ raised' = Some(<<Fill(40)>>)
        /\ pc' = "done"
        /\ UNCHANGED open_connections
     \/ \E db \in SchemaOutcomes : SchemaRead(get_schema(db))
  /\ UNCHANGED <<outside, message, raw_query, locals, response>>

\* the fields of the IntentResult that invoke reads
ReadFields(r) ==
  [intent |-> r.intent, confidence |-> r.confidence, customer_name |-> r.customer_name,
   ticket_id |-> r.ticket_id, entities |-> r.entities]

Classified(reply, out) ==
  /\ calls' = calls \o (IF out.llm_calls > 0
                          THEN <<Call("llm_classify", <<>>, reply.raises)>> ELSE <<>>)
  /\ intent_result' = IF out.raised THEN None ELSE Some(ReadFields(out.result))
  /\ raised' = IF out.raised THEN Some(<<Fill(40)>>) ELSE None
  /\ pc' = IF out.raised THEN "done" ELSE "sql"

\* line 111: classification, with the model that was built
Classify ==
  /\ pc = "classify"
  /\ \E reply \in RepliesFor(raw_query, TRUE) :
       Classified(reply, classify_intent_and_entities(Some(raw_query), TRUE, reply))
  /\ UNCHANGED <<outside, open_connections, message, raw_query, sql_query, sql_result, retrieval_used,
                 retrieval_snippet, tool_outputs, context_parts, raw_answer, response>>

\* lines 153-155: the tool call raised
SqlToolRaised(e) ==
  /\ tool_outputs' = Append(tool_outputs, <<Lit("SQL tool error: ")>> \o e)
  /\ sql_result' = Some(<<Lit("Error: ")>> \o e)
  /\ calls' = Append(calls, Call("query_customer_tickets", e, TRUE))
  /\ UNCHANGED <<sql_query, open_connections>>

\* lines 146-151: sq and sr replace the locals when they are not None
SqlToolParsed(t, parsed) ==
  /\ tool_outputs' =
       Append(tool_outputs, <<Lit("SQL tool: ")>> \o Truncate(t.out, ToolOutputLimit))
  /\ sql_query' = OrElse(parsed.sql_query, sql_query)
  /\ sql_result' = OrElse(parsed.sql_result, sql_result)
  /\ calls' = calls \o <<Call("query_customer_tickets", t.out, FALSE)>> \o t.calls
  /\ open_connections' = open_connections + LeftOpen(t.calls)

SqlToolReturned(t) == SqlToolParsed(t, _parse_sql_tool_output(t.out))

\* lines 142-155: the tabular tool, for the intents customer and both
SqlStep ==
  /\ pc = "sql"
  /\ pc' = "retrieve"
  /\ IF intent_result.val.intent \in {INTENT_CUSTOMER, INTENT_BOTH}
       THEN \/ \E e \in ErrorTexts : SqlToolRaised(e)
            \/ \E reply \in SqlReplies, db \in DbOutcomes :
                 SqlToolReturned(query_customer_tickets(raw_query, reply, db))
       ELSE UNCHANGED <<sql_query, sql_result, tool_outputs, calls, open_connections>>
  /\ UNCHANGED <<outside, message, raw_query, intent_result, retrieval_used,
                 retrieval_snippet, context_parts, raw_answer, response, raised>>

\* lines 164-166: the tool call raised
RetrieverRaised(e) ==
  /\ tool_outputs' = Append(tool_outputs, <<Lit("Retriever error: ")>> \o e)
  /\ retrieval_snippet' = Some(<<Lit("Error: ")>> \o e)
  /\ calls' = Append(calls, Call("search_policy_documents", e, TRUE))
  /\ UNCHANGED retrieval_used

\* lines 159-162
RetrieverReturned(t) ==
  /\ retrieval_used' = TRUE
  /\ retrieval_snippet' = IF t.out # <<>> THEN Some(Truncate(t.out, SnippetLimit)) ELSE None
  /\ tool_outputs' =
       Append(tool_outputs,
              <<Lit("Retriever: ")>> \o
                (IF t.out # <<>> THEN Truncate(t.out, ToolOutputLimit)
                 ELSE <<Lit("No results")>>))
  /\ calls' = calls \o <<Call("search_policy_documents", t.out, FALSE)>> \o t.calls

\* lines 157-166: the document tool, for the intents policy and both
RetrieveStep ==
  /\ pc = "retrieve"
  /\ pc' = "compose"
  /\ IF intent_result.val.intent \in {INTENT_POLICY, INTENT_BOTH}
       THEN \/ \E e \in ErrorTexts : RetrieverRaised(e)
            \/ \E found \in SearchOutcomes :
                 RetrieverReturned(search_policy_documents(raw_query, found))
       ELSE UNCHANGED <<retrieval_used, retrieval_snippet, tool_outputs, calls>>
  /\ UNCHANGED <<outside, open_connections, message, raw_query, intent_result, sql_query, sql_result,
                 context_parts, raw_answer, response, raised>>

\* lines 191-215: the AgentResponse built from the locals
Respond(answer) ==
  /\ raw_answer' = Some(answer)
  /\ response' =
       Some(AgentResponse(
         IF answer # <<>> THEN answer ELSE <<Lit("I couldn't generate a response.")>>,
         sql_query,
         sql_result,
         retrieval_used,
         IF retrieval_snippet.some /\ retrieval_snippet.val # <<>>
           THEN Some(Truncate(retrieval_snippet.val, SnippetLimit)) ELSE None,
         raw_query,
         [intent |-> intent_result.val.intent,
          confidence |-> intent_result.val.confidence,
          entities |-> MergedEntities(intent_result.val)],
         SelectedTools(intent_result.val.intent),
         IF tool_outputs # <<>> THEN Some(JoinBar(tool_outputs)) ELSE None))

\* lines 168-215: the context, the composition call and the response
Compose ==
  /\ pc = "compose"
  /\ pc' = "done"
  /\ context_parts' = ContextParts(sql_result, retrieval_snippet)
  /\ \E reply \in FinalReplies :
       /\ calls' = Append(calls, Call("llm_final",
                                      IF reply.raises THEN reply.error ELSE <<>>,
                                      reply.raises))
       /\ Respond(FinalAnswer(reply))
  /\ UNCHANGED <<outside, open_connections, message, raw_query, intent_result, sql_query, sql_result,
                 retrieval_used, retrieval_snippet, tool_outputs, raised>>

\* the call has returned or raised; the caller makes the next one
NextRequest ==
  /\ pc \in {"done", "returned", "parsed", "queried", "described"}
  /\ pc' = "idle"
  /\ cl_in' = NoCall
  /\ cl_reply' = None
  /\ cl_out' = None
  /\ message' = None
  /\ raw_query' = <<>>
  /\ intent_result' = None
  /\ sql_query' = None
  /\ sql_result' = None
  /\ retrieval_used' = FALSE
  /\ retrieval_snippet' = None
  /\ tool_outputs' = <<>>
  /\ context_parts' = <<>>
  /\ raw_answer' = None
  /\ response' = None
  /\ raised' = None
  /\ calls' = <<>>
  /\ ps_in' = None
  /\ ps_out' = None
  /\ rq_in' = None
  /\ rq_out' = None
  /\ gs_in' = None
  /\ gs_out' = None
  /\ UNCHANGED <<vs_vars, open_connections>>

Next ==
  \/ ClassifyCall
  \/ ParseCall
  \/ RunQueryCall
  \/ GetSchemaCall
  \/ Receive
  \/ BuildAgent
  \/ Classify
  \/ SqlStep
  \/ RetrieveStep
  \/ Compose
  \/ NextRequest

Spec == Init /\ [][Next]_vars

\* ------------------------------------- vector_store.py: lazy initialisation
\* Each step is one access to a module global; a thread may be switched out
\* between any two of them.
Others == <<cl_vars, ps_vars, rq_vars, gs_vars, open_connections, pc, message, raw_query, locals, response, raised, calls>>

\* the thread starts: warmup() or search() is entered
Begin(t) ==
  /\ vs_threads[t].at = "idle"
  /\ \E todo \in Programs(t), chroma_path \in ChromaPaths(t) :
       vs_threads' =
         [vs_threads EXCEPT ![t].todo = todo, ![t].at = "test", ![t].chroma_path = chroma_path]
  /\ UNCHANGED <<vs_globals, vs_built, Others>>

\* lines 15 and 29: if <global> is None
Test(t) ==
  /\ vs_threads[t].at = "test"
  /\ vs_threads' =
       [vs_threads EXCEPT ![t].at =
          IF vs_globals[GlobalOf(Head(vs_threads[t].todo))].some THEN "return"
          ELSE "construct"]
  /\ UNCHANGED <<vs_globals, vs_built, Others>>

\* lines 17 and 34, right-hand side: the object is constructed, or the
\* constructor raises and the exception leaves the function
Construct(t) ==
  /\ vs_threads[t].at = "construct"
  /\ \/ /\ vs_built' = [vs_built EXCEPT ![GlobalOf(Head(vs_threads[t].todo))] = @ + 1]
        /\ vs_threads' =
             [vs_threads EXCEPT
                ![t].made =
                  Some(Handle(vs_built[GlobalOf(Head(vs_threads[t].todo))] + 1,
                              ArgOf(Head(vs_threads[t].todo), vs_threads[t].chroma_path))),
                ![t].at = "store"]
     \/ /\ vs_threads' = [vs_threads EXCEPT ![t].todo = <<>>, ![t].at = "raised"]
        /\ UNCHANGED vs_built
  /\ UNCHANGED <<vs_globals, Others>>

\* lines 17 and 34: the assignment to the global
Store(t) ==
  /\ vs_threads[t].at = "store"
  /\ vs_globals' = [vs_globals EXCEPT ![GlobalOf(Head(vs_threads[t].todo))] = vs_threads[t].made]
  /\ vs_threads' = [vs_threads EXCEPT ![t].at = "return"]
  /\ UNCHANGED <<vs_built, Others>>

\* lines 18 and 35: return <global>, read when the function returns
Return(t) ==
  /\ vs_threads[t].at = "return"
  /\ vs_threads' =
       [vs_threads EXCEPT
          ![t].got[Head(vs_threads[t].todo)] = vs_globals[GlobalOf(Head(vs_threads[t].todo))],
          ![t].todo = Tail(@),
          ![t].at = IF Len(vs_threads[t].todo) > 1 THEN "test" ELSE "end"]
  /\ UNCHANGED <<vs_globals, vs_built, Others>>

VectorNext ==
  \E t \in Callers :
    \/ Begin(t)
    \/ Test(t)
    \/ Construct(t)
    \/ Store(t)
    \/ Return(t)

VectorSpec == Init /\ [][VectorNext]_vars

\* ================================================================== claims
CallsTo(name) == {i \in 1..Len(calls) : calls[i].to = name}

Called(name) == CallsTo(name) # {}

\* the calls that reach the tabular store, and those that reach the document index
TabularCalls == {"query_customer_tickets", "llm_sql", "run_query", "execute", "get_schema"}

DocumentCalls == {"search_policy_documents", "search", "get_collection", "collection.query"}

\* the intent invoke routes on, "" before classification has returned
RoutedIntent == IF intent_result.some THEN intent_result.val.intent ELSE ""

\* C1: in invoke the tabular tool is invoked only for the intents customer and
\* both and the document tool only for policy and both; a policy request
\* never reaches the tabular store and a customer request never reaches the
\* document index, on any path.
C1_ExcludedSourceNeverReached ==
  /\ Called("query_customer_tickets") => RoutedIntent \in {INTENT_CUSTOMER, INTENT_BOTH}
  /\ Called("search_policy_documents") => RoutedIntent \in {INTENT_POLICY, INTENT_BOTH}
  /\ RoutedIntent = INTENT_POLICY => \A i \in 1..Len(calls) : calls[i].to \notin TabularCalls
  /\ RoutedIntent = INTENT_CUSTOMER => \A i \in 1..Len(calls) : calls[i].to \notin DocumentCalls

\* the part of C1 that is about the two tools only
C1_ToolsFollowIntent ==
  /\ Called("query_customer_tickets") => RoutedIntent \in {INTENT_CUSTOMER, INTENT_BOTH}
  /\ Called("search_policy_documents") => RoutedIntent \in {INTENT_POLICY, INTENT_BOTH}
  /\ RoutedIntent = INTENT_POLICY =>
       \A i \in 1..Len(calls) : calls[i].to \notin (TabularCalls \ {"get_schema"})
  /\ RoutedIntent = INTENT_CUSTOMER => \A i \in 1..Len(calls) : calls[i].to \notin DocumentCalls

\* C2: invoke never raises to its caller: whatever the input and whichever
\* collaborator fails, it ends by returning an AgentResponse with a non-empty
\* answer.
C2_InvokeNeverRaises ==
  pc = "done" => raised = None /\ response.some /\ response.val.answer # <<>>

\* C3: for an empty or whitespace-only input (or None) the classifier returns
\* both with confidence 0.0, and invoke returns the clarification message
\* having made no call to the model, the tabular store or the document index.
C3_EmptyInput ==
  /\ (pc = "returned" /\ Stripped(cl_in.user_message) = <<>>) =>
       /\ ~cl_out.val.raised
       /\ cl_out.val.result.intent = INTENT_BOTH
       /\ cl_out.val.result.confidence = 0
       /\ cl_out.val.llm_calls = 0
  /\ (pc \notin {"idle", "returned", "parsed", "queried", "described"} /\ Stripped(message) = <<>>) =>
       /\ pc = "done"
       /\ raised = None
       /\ response = Some(Clarification(<<>>))
       /\ calls = <<>>

C3_Witness ==
  /\ pc = "done"
  /\ message = Some(<<WS, WS>>)
  /\ response.some
  /\ response.val.answer =
       <<Lit("Please provide a question about a customer, support tickets, or company policy.")>>

\* the decision table of the rule layer on the three signals
RuleTable(p, c, e, intent, confidence, llm_calls) ==
  /\ (p /\ (c \/ e)) => intent = INTENT_BOTH /\ confidence = 90
  /\ (p /\ ~c /\ ~e) => intent = INTENT_POLICY /\ confidence = 95 /\ confidence >= 90
  /\ (~p /\ (c \/ e)) => intent = INTENT_CUSTOMER /\ confidence = 90
  /\ p => intent # INTENT_CUSTOMER
  /\ (p \/ c \/ e) => llm_calls = 0

RuleTableOn(text, intent, confidence, llm_calls) ==
  RuleTable(has_policy(text), has_customer(text), has_person_or_entity(text),
            intent, confidence, llm_calls)

\* C4: for a non-empty message the rule layer decides from has_policy,
\* has_customer and the person/entity detection alone: policy with a customer
\* signal is both at 0.9, policy without one is policy at 0.95, a customer
\* signal without policy is customer at 0.9; a message with a policy keyword is
\* never classified customer, and a rule's decision needs no model call.
\* Checked when a direct call has returned, and in invoke when the
\* classification has returned (pc = "sql").
C4_RuleLayer ==
  /\ (pc = "returned" /\ Stripped(cl_in.user_message) # <<>>) =>
       RuleTableOn(Stripped(cl_in.user_message), cl_out.val.result.intent,
                   cl_out.val.result.confidence, cl_out.val.llm_calls)
  /\ pc = "sql" =>
       RuleTableOn(raw_query, intent_result.val.intent, intent_result.val.confidence,
                   Cardinality(CallsTo("llm_classify")))

C4_Witness ==
  /\ pc = "returned"
  /\ has_policy(Stripped(cl_in.user_message))
  /\ ~has_customer(Stripped(cl_in.user_message))
  /\ has_person_or_entity(Stripped(cl_in.user_message))
  /\ cl_out.val.result.intent = INTENT_BOTH
  /\ cl_out.val.result.confidence = 90

\* a direct call on a non-empty message that no rule decides, with a model
AmbiguousCall ==
  /\ pc = "returned"
  /\ cl_in.llm
  /\ Stripped(cl_in.user_message) # <<>>
  /\ ~has_policy(Stripped(cl_in.user_message))
  /\ ~has_customer(Stripped(cl_in.user_message))
  /\ ~has_person_or_entity(Stripped(cl_in.user_message))

\* what json.loads makes of the reply after the fences are removed
ParsedReply(reply) == JsonLoads(UnfenceJson(reply.content))

\* the model call failed, or its reply is not a JSON object
FailedOrUnparsable(reply) ==
  \/ reply.raises
  \/ ~ParsedReply(reply).some
  \/ ParsedReply(reply).val.k # "object"

\* the reply is a JSON object whose intent is absent, null, not a string, or a
\* string other than policy, customer and both (in any letter case)
InvalidIntent(reply) ==
  /\ ~FailedOrUnparsable(reply)
  /\ \/ ParsedReply(reply).val.intent.t # "str"
     \/ ParsedReply(reply).val.intent.empty
     \/ LowerIntent(ParsedReply(reply).val.intent.s)
          \notin {INTENT_POLICY, INTENT_CUSTOMER, INTENT_BOTH}

\* the confidence the reply states as a number, 0.8 when it has no such key
StatesConfidence(reply) == ParsedReply(reply).val.confidence.t \in {"num", "missing"}

C6_IntentAndConfidenceInRange ==
  pc = "returned" =>
    /\ cl_out.val.result.intent \in {INTENT_POLICY, INTENT_CUSTOMER, INTENT_BOTH}
    /\ cl_out.val.result.confidence >= 0
    /\ cl_out.val.result.confidence <= 100

\* when the rule layer decides, its decision is returned and no model call was made
RuleFirst(rule, out) == rule.some => out.llm_calls = 0 /\ out.result = rule.val

ToolCall(name) == calls[MinOf(CallsTo(name))]

\* the tool raised, or reported an error in what it returned
ToolFailed(name) ==
  /\ Called(name)
  /\ \/ ToolCall(name).failed
     \/ HasLit(ToolCall(name).arg, "Error: ")
     \/ HasLit(ToolCall(name).arg, "Query error: ")

\* the tabular tool returned rows, the document tool returned text
SqlSucceeded ==
  /\ Called("query_customer_tickets")
  /\ ~ToolFailed("query_customer_tickets")
  /\ HasLit(ToolCall("query_customer_tickets").arg, "Result:")

RetrieverSucceeded ==
  Called("search_policy_documents") /\ ~ToolFailed("search_policy_documents")

InContext(label, payload) ==
  \E i \in 1..Len(context_parts) :
    context_parts[i].label = label /\ context_parts[i].payload = payload

\* C8: for the intent both, a source that fails (its tool raises or reports an
\* error) does not stop the request: the other source is still invoked, what
\* it returned is in the context, and the composition call is still made,
\* whichever of the two fails.
C8_PartialFailure ==
  (pc = "done" /\ RoutedIntent = INTENT_BOTH) =>
    /\ raised = None
    /\ response.some
    /\ Called("query_customer_tickets")
    /\ Called("search_policy_documents")
    /\ Called("llm_final")
    /\ (ToolFailed("query_customer_tickets") /\ RetrieverSucceeded) =>
         InContext("Policy/relevant documents",
                   Truncate(ToolCall("search_policy_documents").arg, SnippetLimit))
    /\ (ToolFailed("search_policy_documents") /\ SqlSucceeded) =>
         InContext("Customer/ticket data",
                   _parse_sql_tool_output(ToolCall("query_customer_tickets").arg).sql_result.val)

C8_Witness ==
  /\ pc = "done"
  /\ RoutedIntent = INTENT_BOTH
  /\ ToolCall("query_customer_tickets").failed
  /\ RetrieverSucceeded
  /\ ToolCall("search_policy_documents").arg = <<Fill(600)>>
  /\ InContext("Policy/relevant documents", <<Fill(600)>>)
  /\ Called("llm_final")

\* the statement the tabular tool takes from the model's reply
GeneratedSql == UnfenceSql(ToolCall("llm_sql").arg)

NotSelectMessage ==
  <<Lit("Generated query was not a SELECT. Please ask about customer or ticket data.")>>

\* C9: the tabular tool hands a statement to run_query only if the model's
\* output, after the code fences are removed, begins with SELECT (in any letter
\* case); otherwise it reports a failure, nothing is executed, and the
\* response carries neither sql_query nor sql_result.
C9_OnlySelectReachesRunQuery ==
  /\ \A i \in CallsTo("run_query") \cup CallsTo("execute") :
       /\ Called("llm_sql")
       /\ ~ToolCall("llm_sql").failed
       /\ calls[i].arg = GeneratedSql
       /\ StartsWithSelect(calls[i].arg)
  /\ (Called("llm_sql") /\ ~ToolCall("llm_sql").failed /\ ~StartsWithSelect(GeneratedSql)) =>
       /\ ~Called("run_query")
       /\ ~Called("execute")
       /\ ToolCall("query_customer_tickets").arg = NotSelectMessage
       /\ sql_query = None
       /\ sql_result = None
       /\ response.some => response.val.sql_query = None /\ response.val.sql_result = None

C9_Witness ==
  /\ pc = "done"
  /\ response.some
  /\ Called("llm_sql")
  /\ ToolCall("llm_sql").arg = <<Lit("DROP"), Lit(" "), Fill(10)>>
  /\ ToolCall("query_customer_tickets").arg = NotSelectMessage
  /\ response.val.sql_query = None

\* the composition call raised
FinalRaised == Called("llm_final") /\ ToolCall("llm_final").failed

\* nlp_details and agent_selection as the values collected before the
\* composition call determine them
CollectedDetails ==
  /\ response.val.nlp_details.intent = intent_result.val.intent
  /\ response.val.nlp_details.confidence = intent_result.val.confidence
  /\ response.val.nlp_details.entities = MergedEntities(intent_result.val)
  /\ response.val.agent_selection = SelectedTools(intent_result.val.intent)

BlocksOf(label) == {i \in 1..Len(context_parts) : context_parts[i].label = label}

HasBlock(label) == BlocksOf(label) # {}

\* C11: the context given to the composition call is never empty; when both
\* data blocks are present the customer/ticket block precedes the policy
\* block; the no-data sentinel is in the context if and only if neither data
\* block is.
C11_ContextShape ==
  Called("llm_final") =>
    /\ context_parts # <<>>
    /\ \A i \in BlocksOf("Customer/ticket data"), j \in BlocksOf("Policy/relevant documents") :
         i < j
    /\ HasBlock("No data was retrieved") <=>
         (~HasBlock("Customer/ticket data") /\ ~HasBlock("Policy/relevant documents"))

C11_Witness ==
  /\ Called("llm_final")
  /\ Len(context_parts) = 2
  /\ context_parts[1].label = "Customer/ticket data"
  /\ context_parts[2].label = "Policy/relevant documents"


\* the document tool found nothing
RetrieverFoundNothing ==
  /\ Called("search_policy_documents")
  /\ ToolCall("search_policy_documents").arg = <<Lit("No relevant policy documents found.")>>

\* C12: the context holds a data block only for a source that succeeded: a
\* tabular query or a document search that failed (the tool returned an error
\* text, the store reported a query error, or the tool call raised) is never
\* in the context as a data block, and the context is the single no-data
\* block when every invoked source failed or returned nothing.
C12_DataBlocksOnlyFromSuccess ==
  Called("llm_final") =>
    /\ HasBlock("Customer/ticket data") => SqlSucceeded
    /\ HasBlock("Policy/relevant documents") => RetrieverSucceeded
    /\ (~SqlSucceeded /\ (~RetrieverSucceeded \/ RetrieverFoundNothing)) =>
         context_parts = NoDataPart


\* the generation call returned a statement that the tool accepted as SELECT
GenerationSucceeded ==
  /\ Called("llm_sql")
  /\ ~ToolCall("llm_sql").failed
  /\ StartsWithSelect(GeneratedSql)

\* C13: in every AgentResponse, sql_query is set only if query generation
\* succeeded (the model produced a statement accepted as SELECT), and
\* retrieval_snippet is set only if retrieval_used is true.
C13_DiagnosticFieldsConsistent ==
  response.some =>
    /\ response.val.sql_query.some => GenerationSucceeded
    /\ response.val.retrieval_snippet.some => response.val.retrieval_used

\* the part of C13 about sql_query alone; it is the statement that was run
C13_SqlQueryOnlyAfterGeneration ==
  (response.some /\ response.val.sql_query.some) =>
    /\ GenerationSucceeded
    /\ response.val.sql_query.val = StripP(GeneratedSql)
    /\ Called("run_query")


\* the payload lacks one of the two markers
LacksMarker(output) == ~HasLit(output, "SQL:") \/ ~HasLit(output, "Result:")

\* C14: _parse_sql_tool_output inverts the framing "SQL: <q>\nResult: <r>":
\* for every q and r it returns (trim(q), trim(r)), also when q or r hold the
\* markers; for a payload that lacks a marker both fields are absent; it
\* never returns only one of the two fields.
C14_ParseInvertsFraming ==
  ps_out.some =>
    /\ ps_in.val.q.some =>
         ps_out.val = [sql_query |-> Some(StripP(ps_in.val.q.val)),
                       sql_result |-> Some(StripP(ps_in.val.r.val))]
    /\ LacksMarker(ps_in.val.output) =>
         ps_out.val = [sql_query |-> None, sql_result |-> None]
    /\ ps_out.val.sql_query.some <=> ps_out.val.sql_result.some

\* the statement holds neither the marker SQL: nor a line starting with Result:
PlainStatement(q) ==
  /\ ~HasLit(q, "SQL:")
  /\ \A i \in 2..Len(q) : ~(q[i - 1].w = "NL" /\ q[i].w = "Result:")

\* what of C14 the parser does: the round trip for such statements, whatever
\* the result holds, and both fields absent when a marker is missing
C14_ParseInvertsPlainFraming ==
  ps_out.some =>
    /\ (ps_in.val.q.some /\ PlainStatement(ps_in.val.q.val)) =>
         ps_out.val = [sql_query |-> Some(StripP(ps_in.val.q.val)),
                       sql_result |-> Some(StripP(ps_in.val.r.val))]
    /\ LacksMarker(ps_in.val.output) =>
         ps_out.val = [sql_query |-> None, sql_result |-> None]


\* the handles a function has returned to its callers
Obtained(fn) ==
  {vs_threads[t].got[fn].val : t \in {u \in Callers : vs_threads[u].got[fn].some}}

\* C15: with concurrent callers of get_client and _get_embedding_fn (two
\* requests, or warmup racing a request) the client and the embedding model are
\* each constructed at most once in the process, and every caller obtains the
\* same handle.
C15_InitializedOnce ==
  /\ vs_built["_client"] <= 1
  /\ vs_built["_embedding_fn"] <= 1
  /\ Cardinality(Obtained("get_client")) <= 1
  /\ Cardinality(Obtained("_get_embedding_fn")) <= 1


\* the collaborators of one request
Collaborators == {"llm_classify", "llm_sql", "run_query", "search", "llm_final"}

\* C16: within one request no collaborator call is retried: the
\* classification call, the query-generation call, run_query, the index search
\* and the composition call are each issued at most once, also after one of
\* them failed; a direct classifier call issues at most one model call.
C16_NoRetries ==
  /\ \A name \in Collaborators : Cardinality(CallsTo(name)) <= 1
  /\ cl_out.some => cl_out.val.llm_calls <= 1

C16_Witness ==
  /\ pc = "done"
  /\ Called("llm_classify") /\ ToolCall("llm_classify").failed
  /\ Called("llm_sql") /\ ~ToolCall("llm_sql").failed
  /\ Called("run_query") /\ ToolCall("run_query").failed
  /\ Called("search") /\ ToolCall("search").failed
  /\ Called("llm_final") /\ ToolCall("llm_final").failed
  /\ Len(calls) = 10


NoResultsText == <<Lit("No relevant policy documents found.")>>

\* the index answered the search with no chunk: the collection is missing, or
\* the query matched nothing
FoundNoChunks ==
  /\ Called("get_collection")
  /\ \/ ToolCall("get_collection").failed
     \/ Called("collection.query") /\ ToolCall("collection.query").arg = <<>>

\* C17: when the index search finds no chunks (empty result or missing
\* collection) the document outcome is a success with the no-results
\* payload: the search and the tool call do not fail, retrieval_used is true,
\* retrieval_snippet is the no-results text and not an error text, and no
\* exception leaves the request.
C17_NoChunksIsSuccess ==
  (pc \in {"compose", "done"} /\ FoundNoChunks) =>
    /\ ~ToolCall("search").failed
    /\ ToolCall("search").arg = <<>>
    /\ ~ToolFailed("search_policy_documents")
    /\ ToolCall("search_policy_documents").arg = NoResultsText
    /\ retrieval_used
    /\ retrieval_snippet = Some(NoResultsText)
    /\ raised = None
    /\ pc = "done" =>
         /\ response.some
         /\ response.val.retrieval_used
         /\ response.val.retrieval_snippet = Some(NoResultsText)

C17_Witness ==
  /\ pc = "done"
  /\ Called("get_collection")
  /\ ToolCall("get_collection").failed
  /\ response.some
  /\ response.val.retrieval_used
  /\ response.val.retrieval_snippet = Some(NoResultsText)


\* the same bag of entities, an empty one being {} or None
SameEntities(carried, extracted) ==
  IF carried.some THEN carried.val = extracted ELSE extracted = <<>>

\* C18: on every branch of classify_intent_and_entities (Both, Policy and
\* Customer rule, model fallback, default) the entities of the returned
\* decision are the result of _extract_entities on the message, an empty bag
\* being empty or absent.
C18_EntitiesAreExtracted ==
  (pc = "returned" /\ ~cl_out.val.raised) =>
    SameEntities(cl_out.val.result.entities, _extract_entities(Stripped(cl_in.user_message)))

C18_Witness ==
  /\ pc = "returned"
  /\ ~cl_out.val.raised
  /\ cl_out.val.result.intent = INTENT_BOTH
  /\ cl_out.val.result.entities.some
  /\ DOMAIN cl_out.val.result.entities.val = {"customer_name", "ticket_status"}


\* the four phrasings in the order the claim gives them, each yielding the
\* two capitalized words of its leftmost match:
\* "customer <Name>", "<Name> qualify/profile/details/tickets/bought/purchased",
\* "Does/Did/Has <Name>", any two capitalized words
ClaimedPick(W, P1, P2, P3, P4) ==
  IF P1 # {} THEN Some(SubSeq(W, MinOf(P1) + 1, MinOf(P1) + 2))
  ELSE IF P2 # {} THEN Some(SubSeq(W, MinOf(P2), MinOf(P2) + 1))
  ELSE IF P3 # {} THEN Some(SubSeq(W, MinOf(P3) + 1, MinOf(P3) + 2))
  ELSE IF P4 # {} THEN Some(SubSeq(W, MinOf(P4), MinOf(P4) + 1))
  ELSE None

ClaimedName(W) ==
  ClaimedPick(W,
              {i \in 1..Len(W) : CustomerCapCapAt(W, i)},
              {i \in 1..Len(W) : CapCapVerbAt(W, i)},
              {i \in 1..Len(W) : DoesCapCapAt(W, i)},
              {i \in 1..Len(W) : CapCapAt(W, i)})

\* a direct call that a rule answered with the name extracted from the text
RuleNamed ==
  /\ pc = "returned"
  /\ ~cl_out.val.raised
  /\ cl_out.val.llm_calls = 0
  /\ cl_out.val.result.confidence = 90

\* C19: the customer name extracted is the match of the first phrasing that
\* matches, in the order "customer <Name>", "<Name> qualify/profile/details/
\* tickets/bought/purchased", "Does/Did/Has <Name>", any two capitalized
\* words; when the text holds "customer <First Last>" the name extracted is
\* that name and no other span of the text.
C19_FirstPatternWins ==
  RuleNamed =>
    LET W == Words(Stripped(cl_in.user_message))
        customers == {i \in 1..Len(W) : CustomerCapCapAt(W, i)}
    IN /\ cl_out.val.result.customer_name = ClaimedName(W)
       /\ customers # {} =>
            cl_out.val.result.customer_name =
              Some(SubSeq(W, MinOf(customers) + 1, MinOf(customers) + 2))


OnlySelectRows == ErrorRows(<<Lit("Only SELECT queries are allowed.")>>)

\* C20: run_query rejects every statement that does not begin with SELECT by
\* returning the one error-marker mapping, without opening a connection or
\* executing anything; for a statement that begins with SELECT it returns
\* rows or one error-marker mapping and never raises a database error.
C20_RunQueryContract ==
  rq_out.some =>
    IF ~StartsWithSelect(StripP(rq_in.val.sql))
      THEN /\ ~rq_out.val.raised
           /\ rq_out.val.rows = OnlySelectRows
           /\ ~rq_out.val.connect
           /\ ~rq_out.val.executed
    ELSE /\ ~rq_out.val.raised
         /\ rq_out.val.rows.error.some => rq_out.val.rows.n = 1

\* the part of C20 about rejected statements alone
C20_NonSelectRejected ==
  (rq_out.some /\ ~StartsWithSelect(StripP(rq_in.val.sql))) =>
    /\ ~rq_out.val.raised
    /\ rq_out.val.rows = OnlySelectRows
    /\ ~rq_out.val.connect
    /\ ~rq_out.val.executed


\* the literal no-data phrase
NoDataPhrase == "No matching data found."

\* C21: whenever the context holds at least one data block (a block that is
\* not the no-data sentinel), the answer invoke returns does not hold the
\* literal no-data phrase.
C21_NoFabrication ==
  (pc = "done" /\ response.some /\ Called("llm_final")
     /\ (HasBlock("Customer/ticket data") \/ HasBlock("Policy/relevant documents"))) =>
    ~HasLit(response.val.answer, NoDataPhrase)


\* C22: payload sizes are bounded on every path, error texts included: the
\* tabular payload in sql_result and in the context has at most 8000
\* characters, the document payload in retrieval_snippet and in the context
\* at most 2000.
C22_PayloadsBounded ==
  /\ sql_result.some => TextLen(sql_result.val) <= SqlResultLimit
  /\ retrieval_snippet.some => TextLen(retrieval_snippet.val) <= SnippetLimit
  /\ \A i \in BlocksOf("Customer/ticket data") :
       TextLen(context_parts[i].payload) <= SqlResultLimit
  /\ \A i \in BlocksOf("Policy/relevant documents") :
       TextLen(context_parts[i].payload) <= SnippetLimit

\* the part of C22 that holds: the rows a query returned are cut to 8000
\* characters by the tool, and what the document tool returned, an error text
\* included, to 2000 by invoke
C22_ReturnedPayloadsBounded ==
  /\ (sql_result.some /\ ~ToolCall("query_customer_tickets").failed
        /\ ~HasLit(sql_result.val, "Query error: ")) =>
       TextLen(sql_result.val) <= SqlResultLimit
  /\ (retrieval_snippet.some /\ ~ToolCall("search_policy_documents").failed) =>
       TextLen(retrieval_snippet.val) <= SnippetLimit


\* C23: once the process-wide client handle exists, no later operation
\* (get_client with any chroma_path, search, ingest_pdfs, warmup) replaces or
\* resets it, so every later get_client call returns the first handle.
C23_ClientNeverReplaced ==
  [][vs_globals["_client"].some => vs_globals'["_client"] = vs_globals["_client"]]_vars

\* a thread is inside get_client between the test of line 29 and the
\* assignment of line 34
Initialising(t) ==
  /\ vs_threads[t].at \in {"construct", "store"}
  /\ Head(vs_threads[t].todo) = "get_client"

\* the part of C23 that holds: a handle that exists while no call is between
\* the test and the assignment is kept by every step, and a call that finds it
\* returns it whatever chroma_path it was given
C23_SettledClientKept ==
  [][(vs_globals["_client"].some /\ \A t \in Callers : ~Initialising(t)) =>
       /\ vs_globals'["_client"] = vs_globals["_client"]
       /\ \A t \in Callers :
            vs_threads'[t].got["get_client"] # vs_threads[t].got["get_client"] =>
              vs_threads'[t].got["get_client"] = vs_globals["_client"]]_vars


\* what the last direct call of run_query or get_schema did with connections
LastConn == IF rq_out.some THEN rq_out.val.conn ELSE gs_out.val.conn

\* C24: every SQLite connection opened by get_schema or run_query is closed
\* before the function returns, on the success path, the missing-table path
\* and the query-error path alike, so after any sequence of calls the number
\* of open connections is zero.
C24_ConnectionsClosed ==
  /\ open_connections = 0
  /\ (rq_out.some \/ gs_out.some) => (LastConn.opened <=> LastConn.closed)
  /\ LeftOpen(calls) = 0

\* run_query has returned the rows of an sqlite3.Error, closed its connection
\* and left none open
C24_Witness ==
  /\ pc = "queried"
  /\ rq_in.val.db.k = "sqlite_error"
  /\ rq_out.val.executed /\ ~rq_out.val.raised /\ rq_out.val.rows.error.some
  /\ rq_out.val.conn.opened /\ rq_out.val.conn.closed
  /\ open_connections = 0

\* get_schema has found no table, closed its connection and left none open
C24_MissingTableWitness ==
  /\ pc = "described"
  /\ gs_in = Some("no_table")
  /\ ~gs_out.val.raised /\ gs_out.val.conn.opened /\ gs_out.val.conn.closed
  /\ open_connections = 0

\* invoke is done after a statement the database rejected, after an earlier
\* request was served
C24_InvokeWitness ==
  /\ pc = "done"
  /\ Called("conn.close") /\ Called("execute")
  /\ sql_result.some /\ HasLit(sql_result.val, "Query error: ")
  /\ open_connections = 0

====
